---- MODULE Spec2Model ----
(***************************************************************************)
(* Model of the giveaway bot of src/index.js.                              *)
(*                                                                         *)
(* Two interactionCreate listeners are modelled:                           *)
(*   - the giveaway builder wizard (src/index.js:388-742), whose state is  *)
(*     the Map giveawayBuilders keyed by interaction.user.id;              *)
(*   - the application flow (src/index.js:181-366), whose state is the Map *)
(*     pendingGiveaways keyed by interaction.user.id.                      *)
(* The application flow includes the moderators' approve_ and deny_        *)
(* buttons (src/index.js:290-337); contact_ and the hostGiveaway_          *)
(* placeholder of that listener touch no state of the model and are left   *)
(* out.                                                                    *)
(* The HTTP side is modelled as well: the rate limit middleware            *)
(* (src/index.js:29-47) and the POST /notify route (src/index.js:83-146),  *)
(* and the start of the process: client.login, the 'ready' listener that   *)
(* calls app.listen, SIGTERM (src/index.js:154-179, 376-386).              *)
(*                                                                         *)
(* A handler runs atomically up to its first await whose result it uses;   *)
(* every such await is a separate step, so that handlers interleave where  *)
(* the JavaScript event loop lets them interleave.  The buttons that only  *)
(* open a modal (toEntryRequirements, toCustomization,                     *)
(* continueCustomMsgModal) read and write no state and are left out.       *)
(* The calls to channels, guild members and roles can fail.  A reply to    *)
(* the interaction that is the last statement of its handler is taken as   *)
(* delivered; the reply of submitGiveaway, which giveawayBuilders.delete   *)
(* follows, can fail.                                                      *)
(***************************************************************************)
EXTENDS Integers, Sequences, FiniteSets, TLC

\* ------------------------------------------------------------------ bounds
MaxInFlight == 2      \* handlers that may be suspended at an await at once
MaxStarts   == 2      \* wizard starts over one behaviour
MaxPosts    == 2      \* messages the giveaway channel keeps in the model
MaxForwards == 2      \* messages the moderator channel keeps in the model
MaxDMs      == 1      \* direct messages /notify sends in the model
MaxTicks    == 4      \* half windows of the rate limiter the clock runs through
MaxDecisions == 2     \* approve_ and deny_ clicks handled in the model
MaxReady    == 2      \* emissions of the client's 'ready' event

Users == {"U1", "U2"}

\* ------------------------------------------------------- JavaScript values
Str(s)    == [t |-> "string", v |-> s]
Undefined == [t |-> "undefined", v |-> ""]

\* truthiness of a string-or-undefined value, as used by `x || default`
Truthy(x) == x.t = "string" /\ x.v # ""

\* x || d without the default: the left operand whatever it is
OrElse_Keeps(x, d) == x

\* x || d
OrElse(x, d) == IF Truthy(x) THEN x ELSE Str(d)

\* `${x}` inside a template literal
Template(x) == IF x.t = "undefined" THEN Str("undefined") ELSE Str(x.v)

\* ------------------------------------------------------------- the fields
BasicFields  == {"title", "prize", "winners", "duration"}
EntryFields  == {"membership", "minMessages", "requiredRoles", "customEntry"}
VisualFields == {"embedColor", "thumbnailUrl", "bannerUrl", "buttonText"}
MsgFields    == {"startMessage", "winnerMessage", "entryConfirmation"}
Fields       == BasicFields \cup EntryFields \cup VisualFields \cup MsgFields

\* data: {}
EmptyData == [f \in Fields |-> Undefined]

\* the values interaction.fields.getTextInputValue returns for one modal:
\* a string for each input of the modal (empty for an optional input that
\* was left empty); the other fields are not part of the modal.
Modal(fs, vals) == [f \in Fields |-> IF f \in fs THEN Str(vals[f]) ELSE Undefined]

BasicInputs ==
  { Modal(BasicFields, [title |-> "Holiday Drop", prize |-> "Gift Card",
                        winners |-> w, duration |-> "1d"]) : w \in {"5", "abc"} }

EntryInputs ==
  { Modal(EntryFields, [membership |-> "7d", minMessages |-> "10",
                        requiredRoles |-> "", customEntry |-> "Be kind"]) }

VisualInputs ==
  { Modal(VisualFields, [embedColor |-> "#FF0000", thumbnailUrl |-> "",
                         bannerUrl |-> "", buttonText |-> "Join"]) }

MsgInputs ==
  { Modal(MsgFields, [startMessage |-> "", winnerMessage |-> "Well done",
                      entryConfirmation |-> ""]) }

\* ------------------------------------------------------------- Map model
\* A Map is a set of entries; each entry has a key and a value.
MapHas(m, k) == \E e \in m : e.key = k

MapEntry(m, k) == CHOOSE e \in m : e.key = k

\* a set that keeps the entry the key had
MapSet_Adds(m, k, e) == m \cup {e}

\* Map.prototype.set: replaces the entry of an existing key
MapSet(m, k, e) == {x \in m : x.key # k} \cup {e}

\* a delete that removes nothing
MapDelete_Keeps(m, k) == m

\* a delete that empties the Map
MapDelete_Clears(m, k) == {}

\* Map.prototype.delete
MapDelete(m, k) == {x \in m : x.key # k}

VARIABLES
  giveawayBuilders,   \* Map user id -> { step, data }
  gen,                \* history: number of wizard starts of each user
  published,          \* history: posts made from the session of the latest start
  inflight,           \* handlers suspended at an await
  giveawayChannel,    \* the giveaway channel: the host of each message posted
  hostRole,           \* members holding the Giveaway Host role
  undelivered,        \* history: users whose confirmation reply was rejected
                      \* since their latest start
  lastEvent,          \* history: the step taken last, and its reply if any
  pendingGiveaways,   \* Map applicant id -> application
  forwarding,         \* agreeSubmission handlers suspended at an await
  modChannel,         \* messages sent to the moderator channel
  applications,       \* history: per user, the values of the latest modal
                      \* submission and the forwards made since
  reviewing,          \* approve_ and deny_ handlers suspended at an await
  inbox,              \* direct messages sent to applicants by the moderators'
                      \* decisions
  integration,        \* DISCORD_INTEGRATION_ENABLED, once the process read it
  notifying,          \* the /notify handler suspended at an await
  dms,                \* direct messages sent by /notify
  lastNotify,         \* history: the /notify request handled last
  rateLimits,         \* object ip -> { count, timestamp }
  now,                \* Date.now()
  admitted,           \* history: per ip, the window of its first counted
                      \* request and the requests passed on within it
  lastRate,           \* history: the request the middleware saw last
  client,             \* the Discord client: its connection and its 'ready'
                      \* listener
  app                 \* the Express application: the calls of app.listen

wizardVars == <<giveawayBuilders, gen, published, undelivered, inflight,
                giveawayChannel, hostRole>>

reviewVars == <<reviewing, inbox>>

applicationVars == <<pendingGiveaways, forwarding, modChannel, applications,
                     reviewVars>>

notifyVars == <<integration, notifying, dms, lastNotify>>

rateVars == <<rateLimits, now, admitted, lastRate>>

processVars == <<client, app>>

serverVars == <<notifyVars, rateVars, processVars>>

vars == <<giveawayBuilders, gen, published, undelivered, inflight,
          giveawayChannel, hostRole,
          lastEvent, pendingGiveaways, forwarding, modChannel,
          integration, notifying, dms, lastNotify,
          rateLimits, now, admitted, lastRate,
          applications, reviewing, inbox, client, app>>


\* ---------------------------------------------------------------- sessions
\* the value stored by giveawayBuilders.set(id, { step: 1, data: {} })
NewSession(u) == [key |-> u, step |-> 1, data |-> EmptyData]

\* what giveawayBuilders.get(id) yields for a missing key, as a record
Absent(u) == [key |-> u, step |-> 0, data |-> EmptyData]

\* giveawayBuilders.get(id)
builderSession(u) ==
  IF MapHas(giveawayBuilders, u) THEN MapEntry(giveawayBuilders, u) ELSE Absent(u)

\* ------------------------------------------------------------------ embeds
Null == [t |-> "null", v |-> ""]

EmbedKeys == {"title", "prize", "color", "thumbnail", "image", "winners",
              "duration", "membership", "minMessages", "requiredRoles",
              "customEntry", "startMessage", "winnerMessage",
              "entryConfirmation"}

NoEmbed == [k \in EmbedKeys |-> Undefined]

\* x || null
OrNull(x) == IF Truthy(x) THEN x ELSE Null

\* the embed assembled by submitGiveaway from builderSession.data
giveawayEmbed(d) ==
  [ title             |-> Template(d["title"]),
    prize             |-> Template(d["prize"]),
    color             |-> OrElse(d["embedColor"], "#00BFFF"),
    thumbnail         |-> OrNull(d["thumbnailUrl"]),
    image             |-> OrNull(d["bannerUrl"]),
    winners           |-> Template(d["winners"]),
    duration          |-> d["duration"],
    membership        |-> OrElse(d["membership"], "None"),
    minMessages       |-> OrElse(d["minMessages"], "None"),
    requiredRoles     |-> OrElse(d["requiredRoles"], "None"),
    customEntry       |-> OrElse(d["customEntry"], "None"),
    startMessage      |-> OrElse(d["startMessage"], "N/A"),
    winnerMessage     |-> OrElse(d["winnerMessage"], "N/A"),
    entryConfirmation |-> OrElse(d["entryConfirmation"], "N/A") ]

\* addFields of the embed builder accepts a field whose value is a
\* non-empty string; the only value passed without a default is duration
FieldsValid(e) == Truthy(e["duration"])

\* ---------------------------------------------------------------- handlers
Slots == 1 .. MaxInFlight

\* the part of a session object a handler reads
NoObject == [step |-> 0, data |-> EmptyData]

\* a suspended handler: the user of its interaction, the await it waits at,
\* its local variables builderSession (live, frozen) and giveawayEmbed, and
\* (history) the start that made the session it got and, of the session as
\* it was when the embed was assembled from it, the step and whether every
\* modal had been saved in it
Idle == [kind |-> "idle", user |-> "", pc |-> "idle", live |-> FALSE,
         frozen |-> NoObject, embed |-> NoEmbed, gen |-> 0, step |-> 0,
         full |-> FALSE]

FreeSlots == {i \in Slots : inflight[i].kind = "idle"}

\* the slot a handler that suspends is put in
FreeSlot == CHOOSE i \in FreeSlots : \A j \in FreeSlots : i <= j

Busy(u) == \E i \in Slots : inflight[i].kind # "idle" /\ inflight[i].user = u

\* builderSession as a suspended handler sees it: the object still stored in
\* the Map, or the object as it was when the Map dropped it (nothing writes
\* to an object the Map no longer holds)
View(h) ==
  IF h.live
  THEN [step |-> MapEntry(giveawayBuilders, h.user).step,
        data |-> MapEntry(giveawayBuilders, h.user).data]
  ELSE h.frozen

\* the Map drops the object stored under u (set of a new object, or delete)
Detach(fl, u) ==
  [i \in Slots |->
     IF fl[i].kind = "submitGiveaway" /\ fl[i].user = u /\ fl[i].live
     THEN [fl[i] EXCEPT !.live = FALSE,
                        !.frozen = [step |-> MapEntry(giveawayBuilders, u).step,
                                    data |-> MapEntry(giveawayBuilders, u).data]]
     ELSE fl[i]]

\* every modal of the wizard has been saved in the data d
Full(d) ==
  /\ \A f \in BasicFields \cup EntryFields : d[f].t = "string"
  /\ \A f \in VisualFields \cup MsgFields : d[f].t = "string"

\* the record kept of a step: the handler (by its custom id) and the user
\* whose interaction it handles, the reply it sent ("pending" while the
\* handler is suspended, "none" when it ended without one), the call that
\* failed in this step, the embed this step delivered to the channel, and
\* of the session s the handler worked on (as it was before the handler
\* wrote to it) the step and whether every modal had been saved in it
Event(kind, u, reply, failed, s) ==
  [kind |-> kind, user |-> u, reply |-> reply, failed |-> failed,
   sent |-> NoEmbed, step |-> s.step, full |-> s.full]

\* what Event keeps of a session object
Seen(s) == [step |-> s.step, full |-> Full(s.data)]

RECURSIVE SumOver(_, _)
SumOver(f, S) ==
  IF S = {} THEN 0
  ELSE LET x == CHOOSE y \in S : TRUE IN f[x] + SumOver(f, S \ {x})

Starts == SumOver(gen, Users)

\* ------------------------------------------------------------ applications
\* interaction.user.tag
Tag(u) == IF u = "U1" THEN "one#0001" ELSE "two#0002"

\* the values of the giveawayModal inputs
ApplicationInputs ==
  { [title |-> "Spring", description |-> "Keys", duration |-> "1h",
     conditions |-> c] : c \in {"", "18+"} }

\* what pendingGiveaways.get(id) yields for a missing key, as a record
NoApplication(u) ==
  [key |-> u, title |-> "", description |-> "", duration |-> "",
   conditions |-> "", applicantId |-> "", applicantTag |-> ""]

\* pendingGiveaways.get(id)
giveawayData(u) ==
  IF MapHas(pendingGiveaways, u) THEN MapEntry(pendingGiveaways, u)
  ELSE NoApplication(u)

\* the message agreeSubmission sends to the moderators: the embed fields and
\* the applicant id carried by the custom ids of its three buttons
NoMessage == [title |-> "", description |-> "", duration |-> "", conditions |-> "",
              applicant |-> "", tag |-> "", buttons |-> "", footer |-> ""]

ModMessage(g) ==
  [title |-> g.title, description |-> g.description, duration |-> g.duration,
   conditions |-> IF g.conditions # "" THEN g.conditions ELSE "None",
   applicant |-> g.applicantId, tag |-> g.applicantTag, buttons |-> g.applicantId,
   footer |-> ""]

\* a suspended agreeSubmission handler
NoForward == [kind |-> "idle", user |-> "", pc |-> "idle", message |-> NoMessage]

FreeForwards == {i \in Slots : forwarding[i].kind = "idle"}

FreeForward == CHOOSE i \in FreeForwards : \A j \in FreeForwards : i <= j

Agreeing(u) == \E i \in Slots : forwarding[i].kind # "idle" /\ forwarding[i].user = u

\* history: no modal submitted yet
NoInput == [title |-> "", description |-> "", duration |-> "", conditions |-> ""]

NotApplied == [submitted |-> FALSE, latest |-> NoInput, replaced |-> FALSE,
               forwards |-> 0]

\* a suspended approve_ or deny_ handler: the index of interaction.message in
\* the moderator channel and the id taken from the custom id of the button
NoReview == [kind |-> "idle", message |-> 0, applicantId |-> "", pc |-> "idle"]

FreeReviews == {i \in Slots : reviewing[i].kind = "idle"}

FreeReview == CHOOSE i \in FreeReviews : \A j \in FreeReviews : i <= j

\* the text a decision sends to the applicant and sets as the footer of the
\* moderator message
Notice(kind) == IF kind = "approve_" THEN "approved" ELSE "denied"

Footer(kind) == IF kind = "approve_" THEN "Approved" ELSE "Rejected"

\* ---------------------------------------------------------------- /notify
\* a string as the list of its characters
Chars(c, n) == [i \in 1 .. n |-> c]

\* req.body.discordId: missing, or a string
NoId == [t |-> "undefined", chars |-> <<>>]

IdString(cs) == [t |-> "string", chars |-> cs]

Digits == {"0", "1", "2", "3", "4", "5", "6", "7", "8", "9"}

\* /^\d{17,19}$/.test(discordId)
discordIdRegex(id) ==
  /\ id.t = "string"
  /\ Len(id.chars) >= 17 /\ Len(id.chars) <= 19
  /\ \A i \in 1 .. Len(id.chars) : id.chars[i] \in Digits

\* the identifiers the requests carry: 16 to 20 digits, 17 characters with a
\* letter among them, the empty string, none
IdInputs ==
  {NoId, IdString(<<>>)}
  \cup {IdString(Chars("7", n)) : n \in 16 .. 20}
  \cup {IdString([Chars("7", 17) EXCEPT ![9] = "a"])}

\* a number in a JSON body
Num(n) == [t |-> "number", v |-> n]

\* !x for the values a JSON body can hold under status and details
Falsy(x) ==
  CASE x.t = "string" -> x.v = ""
    [] x.t = "number" -> x.v = "0"
    [] OTHER -> TRUE

\* status.toLowerCase(), on the texts the requests carry
toLowerCase(text) ==
  CASE text \in {"submitted", "Submitted"} -> "submitted"
    [] text \in {"approved", "APPROVED"} -> "approved"
    [] text \in {"rejected", "ReJeCtEd"} -> "rejected"
    [] OTHER -> text

validStatuses == {"submitted", "approved", "rejected"}

StatusInputs ==
  {Undefined, Num("5")}
  \cup {Str(x) : x \in {"", "submitted", "Submitted", "approved", "APPROVED",
                        "rejected", "ReJeCtEd", "pending"}}

\* req.body.payload: missing (the default {} applies), null, or an object
\* whose details is missing, empty or a text
PayloadInputs ==
  {[t |-> "undefined", details |-> Undefined], [t |-> "null", details |-> Undefined]}
  \cup {[t |-> "object", details |-> d] : d \in {Undefined, Str(""), Str("late")}}

Requests == [discordId : IdInputs, status : StatusInputs, payload : PayloadInputs]

NoRequest == [discordId |-> NoId, status |-> Undefined,
              payload |-> [t |-> "undefined", details |-> Undefined]]

\* the text built by the switch and the += of the details: the template of
\* the status and the details appended to it, if any
NoText == [template |-> "", details |-> Undefined]

message(req) ==
  [template |-> toLowerCase(req.status.v),
   details |-> IF Falsy(req.payload.details) THEN Undefined ELSE req.payload.details]

\* the /notify handler: where it is suspended, the request, the calls of
\* user.send it has made
NoNotify == [pc |-> "idle", req |-> NoRequest, sends |-> 0]

\* the record kept of a handled request: the request, the status of the
\* response ("none": no response was written), the calls of user.send
Handled(req, response, sends) ==
  [req |-> req, response |-> response, sends |-> sends]

\* -------------------------------------------------------------- rate limit
IPs == {"10.0.0.1", "10.0.0.2"}

\* the length of the window in ms and the requests admitted within it
Window == 60000

RateLimit == 10

\* the clock advances by half a window at a time
Tick == Window \div 2

\* rateLimits[ip], for an ip that has an entry
Entry(ip) == MapEntry(rateLimits, ip)

\* ------------------------------------------------------------------- Init
Init ==
  /\ giveawayBuilders = {}
  /\ gen = [u \in Users |-> 0]
  /\ published = [u \in Users |-> 0]
  /\ undelivered = {}
  /\ inflight = [i \in Slots |-> Idle]
  /\ giveawayChannel = <<>>
  /\ hostRole = {}
  /\ lastEvent = Event("none", "", "none", "none", Seen(NoObject))
  /\ pendingGiveaways = {}
  /\ forwarding = [i \in Slots |-> NoForward]
  /\ modChannel = <<>>
  /\ applications = [u \in Users |-> NotApplied]
  /\ reviewing = [i \in Slots |-> NoReview]
  /\ inbox = <<>>
  /\ client = [status |-> "login", ready |-> "once", command |-> "none",
               emitted |-> 0]
  /\ app = [listens |-> 0]
  /\ integration = "unread"
  /\ notifying = NoNotify
  /\ dms = <<>>
  /\ lastNotify = Handled(NoRequest, "none", 0)
  /\ rateLimits = {}
  /\ now = 0
  /\ admitted = [ip \in IPs |-> [start |-> 0, passed |-> 0]]
  /\ lastRate = [ip |-> "", outcome |-> "none"]

\* ------------------------------------------------------- wizard: the start
\* button hostGiveaway_<applicantId>, clicked by u; tgt is the applicant the
\* button was made for
hostGiveaway(u, tgt) ==
  /\ Starts < MaxStarts
  /\ giveawayBuilders' = MapSet(giveawayBuilders, u, NewSession(u))
  /\ inflight' = IF MapHas(giveawayBuilders, u) THEN Detach(inflight, u) ELSE inflight
  /\ gen' = [gen EXCEPT ![u] = @ + 1]
  /\ published' = [published EXCEPT ![u] = 0]
  /\ undelivered' = undelivered \ {u}
  /\ lastEvent' = Event("hostGiveaway_", u, "basicInfoModal", "none", Seen(builderSession(u)))
  /\ UNCHANGED <<giveawayChannel, hostRole>>
  /\ UNCHANGED applicationVars
  /\ UNCHANGED serverVars

\* ------------------------------------------------- wizard: the four modals
\* the modal submission looked up and stored under the owner the modal was
\* made for, instead of under the user who submitted it
SaveStage_ByTarget(kind, u, tgt, input, fs, nextStep) ==
  LET s == builderSession(tgt) IN
  /\ UNCHANGED <<gen, published, inflight, giveawayChannel, hostRole>>
  /\ UNCHANGED undelivered
  /\ UNCHANGED applicationVars
  /\ UNCHANGED serverVars
  /\ IF ~MapHas(giveawayBuilders, tgt)
     THEN /\ lastEvent' = Event(kind, u, "noBuilderSession", "none", Seen(s))
          /\ UNCHANGED giveawayBuilders
     ELSE /\ giveawayBuilders' =
               MapSet(giveawayBuilders, tgt,
                      [s EXCEPT !.data = [f \in Fields |->
                                            IF f \in fs THEN input[f] ELSE s.data[f]],
                                !.step = IF nextStep = 0 THEN @ ELSE nextStep])
          /\ lastEvent' = Event(kind, u, "saved", "none", Seen(s))

\* the common shape of the four modal submissions: get, early return, the
\* assignments to builderSession.data, the assignment to step (if any), set
SaveStage(kind, u, tgt, input, fs, nextStep) ==
  LET s == builderSession(u) IN
  /\ UNCHANGED <<gen, published, inflight, giveawayChannel, hostRole>>
  /\ UNCHANGED undelivered
  /\ UNCHANGED applicationVars
  /\ UNCHANGED serverVars
  /\ IF ~MapHas(giveawayBuilders, u)
     THEN /\ lastEvent' = Event(kind, u, "noBuilderSession", "none", Seen(s))
          /\ UNCHANGED giveawayBuilders
     ELSE /\ giveawayBuilders' =
               MapSet(giveawayBuilders, u,
                      [s EXCEPT !.data = [f \in Fields |->
                                            IF f \in fs THEN input[f] ELSE s.data[f]],
                                !.step = IF nextStep = 0 THEN @ ELSE nextStep])
          /\ lastEvent' = Event(kind, u, "saved", "none", Seen(s))

\* the basic-info submission without the assignment to step
basicInfoModal_KeepsStep(u, tgt, input) ==
  SaveStage("basicInfoModal", u, tgt, input, BasicFields, 0)

\* data.title, prize, winners, duration; step = 2
basicInfoModal(u, tgt, input) ==
  SaveStage("basicInfoModal", u, tgt, input, BasicFields, 2)

entryRequirementsModal(u, tgt, input) ==
  SaveStage("entryRequirementsModal", u, tgt, input, EntryFields, 3)

\* this handler does not assign builderSession.step
customVisualModal(u, tgt, input) ==
  SaveStage("customVisualModal", u, tgt, input, VisualFields, 0)

customMsgModal(u, tgt, input) ==
  SaveStage("customMsgModal", u, tgt, input, MsgFields, 5)

\* ------------------------------------------------ wizard: submitGiveaway
\* the record kept of a step of the suspended submitGiveaway handler h
Resumed(h, reply, failed) == Event(h.kind, h.user, reply, failed, h)

Suspended(i, pc) == inflight[i].kind = "submitGiveaway" /\ inflight[i].pc = pc

\* the button is clicked by u: get, early return, call of channels.fetch
submitGiveaway(u, tgt) ==
  /\ UNCHANGED <<giveawayBuilders, gen, published, giveawayChannel, hostRole>>
  /\ UNCHANGED undelivered
  /\ UNCHANGED applicationVars
  /\ UNCHANGED serverVars
  /\ IF ~MapHas(giveawayBuilders, u)
     THEN /\ lastEvent' = Event("submitGiveaway", u, "noBuilderSession", "none", Seen(NoObject))
          /\ UNCHANGED inflight
     ELSE /\ FreeSlots # {}
          /\ Len(giveawayChannel) + (MaxInFlight - Cardinality(FreeSlots)) < MaxPosts
          /\ inflight' = [inflight EXCEPT ![FreeSlot] =
                            [Idle EXCEPT !.kind = "submitGiveaway", !.user = u,
                                         !.pc = "channels.fetch",
                                         !.live = TRUE, !.gen = gen[u]]]
          /\ lastEvent' = Event("submitGiveaway", u, "pending", "none", Seen(builderSession(u)))

\* client.channels.fetch rejects: the handler ends with an unhandled rejection
channelFetchFails(i) ==
  /\ Suspended(i, "channels.fetch")
  /\ lastEvent' = Resumed(inflight[i], "none", "channels.fetch")
  /\ inflight' = [inflight EXCEPT ![i] = Idle]
  /\ UNCHANGED <<giveawayBuilders, gen, published, giveawayChannel, hostRole>>
  /\ UNCHANGED undelivered
  /\ UNCHANGED applicationVars
  /\ UNCHANGED serverVars

\* the early return on a missing channel, with the session deleted first
giveawayChannelMissing_Cleans(i) ==
  LET h == inflight[i] IN
  /\ Suspended(i, "channels.fetch")
  /\ giveawayBuilders' = MapDelete(giveawayBuilders, h.user)
  /\ inflight' = [inflight EXCEPT ![i] = Idle]
  /\ lastEvent' = Resumed(h, "channelNotFound", "channels.fetch")
  /\ UNCHANGED <<gen, published, undelivered, giveawayChannel, hostRole>>
  /\ UNCHANGED applicationVars
  /\ UNCHANGED serverVars

\* client.channels.fetch yields no channel: reply and return
giveawayChannelMissing(i) ==
  /\ Suspended(i, "channels.fetch")
  /\ lastEvent' = Resumed(inflight[i], "channelNotFound", "channels.fetch")
  /\ inflight' = [inflight EXCEPT ![i] = Idle]
  /\ UNCHANGED <<giveawayBuilders, gen, published, giveawayChannel, hostRole>>
  /\ UNCHANGED undelivered
  /\ UNCHANGED applicationVars
  /\ UNCHANGED serverVars

\* the channel is there: the embed is assembled from builderSession.data and
\* giveawayChannel.send is called; addFields throws on a field without value.
\* The handler does not read builderSession after this point.
channelFetched(i) ==
  LET h == inflight[i]
      e == giveawayEmbed(View(h).data)
  IN
  /\ Suspended(i, "channels.fetch")
  /\ UNCHANGED <<giveawayBuilders, gen, published, giveawayChannel, hostRole>>
  /\ UNCHANGED undelivered
  /\ UNCHANGED applicationVars
  /\ UNCHANGED serverVars
  /\ IF FieldsValid(e)
     THEN /\ inflight' = [inflight EXCEPT ![i] =
                            [h EXCEPT !.pc = "send", !.embed = e,
                                      !.step = View(h).step,
                                      !.full = Full(View(h).data),
                                      !.live = FALSE, !.frozen = NoObject]]
          /\ lastEvent' = Event(h.kind, h.user, "pending", "none", Seen(View(h)))
     ELSE /\ lastEvent' = Event(h.kind, h.user, "none", "addFields", Seen(View(h)))
          /\ inflight' = [inflight EXCEPT ![i] = Idle]

\* giveawayChannel.send rejects: unhandled rejection, nothing after it runs
sendFails(i) ==
  /\ Suspended(i, "send")
  /\ lastEvent' = Resumed(inflight[i], "none", "send")
  /\ inflight' = [inflight EXCEPT ![i] = Idle]
  /\ UNCHANGED <<giveawayBuilders, gen, published, giveawayChannel, hostRole>>
  /\ UNCHANGED undelivered
  /\ UNCHANGED applicationVars
  /\ UNCHANGED serverVars

\* giveawayChannel.send resolves; then client.guilds.cache.get
giveawaySent(i, guildFound) ==
  LET h == inflight[i] IN
  /\ Suspended(i, "send")
  /\ giveawayChannel' = Append(giveawayChannel, h.user)
  /\ published' = IF h.gen = gen[h.user]
                  THEN [published EXCEPT ![h.user] = @ + 1] ELSE published
  /\ inflight' = [inflight EXCEPT ![i] =
                    [h EXCEPT !.embed = NoEmbed,
                              !.pc = IF guildFound THEN "members.fetch" ELSE "reply"]]
  /\ lastEvent' = [Resumed(h, "pending",
                           IF guildFound THEN "none" ELSE "guilds.cache.get")
                     EXCEPT !.sent = h.embed]
  /\ UNCHANGED <<giveawayBuilders, gen, hostRole>>
  /\ UNCHANGED undelivered
  /\ UNCHANGED applicationVars
  /\ UNCHANGED serverVars

\* guild.members.fetch resolves or rejects (caught and logged)
memberFetched(i, ok) ==
  LET h == inflight[i] IN
  /\ Suspended(i, "members.fetch")
  /\ inflight' = [inflight EXCEPT ![i] =
                    [h EXCEPT !.pc = IF ok THEN "roles.add" ELSE "reply"]]
  /\ lastEvent' = Resumed(h, "pending", IF ok THEN "none" ELSE "members.fetch")
  /\ UNCHANGED <<giveawayBuilders, gen, published, giveawayChannel, hostRole>>
  /\ UNCHANGED undelivered
  /\ UNCHANGED applicationVars
  /\ UNCHANGED serverVars

\* a rejection of member.roles.add takes the announcement back and ends the
\* handler
roleAdded_RollsBack(i, ok) ==
  LET h == inflight[i] IN
  /\ Suspended(i, "roles.add")
  /\ hostRole' = IF ok THEN hostRole \cup {h.user} ELSE hostRole
  /\ giveawayChannel' = IF ok THEN giveawayChannel
                        ELSE SubSeq(giveawayChannel, 1, Len(giveawayChannel) - 1)
  /\ inflight' = [inflight EXCEPT ![i] =
                    IF ok THEN [h EXCEPT !.pc = "reply"] ELSE Idle]
  /\ lastEvent' = Resumed(h, IF ok THEN "pending" ELSE "none",
                          IF ok THEN "none" ELSE "roles.add")
  /\ UNCHANGED <<giveawayBuilders, gen, published>>
  /\ UNCHANGED undelivered
  /\ UNCHANGED applicationVars
  /\ UNCHANGED serverVars

\* member.roles.add resolves or rejects (caught and logged)
roleAdded(i, ok) ==
  LET h == inflight[i] IN
  /\ Suspended(i, "roles.add")
  /\ hostRole' = IF ok THEN hostRole \cup {h.user} ELSE hostRole
  /\ inflight' = [inflight EXCEPT ![i] = [h EXCEPT !.pc = "reply"]]
  /\ lastEvent' = Resumed(h, "pending", IF ok THEN "none" ELSE "roles.add")
  /\ UNCHANGED <<giveawayBuilders, gen, published, giveawayChannel>>
  /\ UNCHANGED undelivered
  /\ UNCHANGED applicationVars
  /\ UNCHANGED serverVars

\* interaction.reply resolves, then giveawayBuilders.delete; or it rejects:
\* unhandled rejection, the delete is not reached
replied(i, ok) ==
  LET h == inflight[i] IN
  /\ Suspended(i, "reply")
  /\ giveawayBuilders' = IF ok THEN MapDelete(giveawayBuilders, h.user)
                         ELSE giveawayBuilders
  /\ inflight' = [(IF ok /\ MapHas(giveawayBuilders, h.user)
                   THEN Detach(inflight, h.user) ELSE inflight) EXCEPT ![i] = Idle]
  /\ undelivered' = IF ~ok /\ h.gen = gen[h.user]
                    THEN undelivered \cup {h.user} ELSE undelivered
  /\ lastEvent' = Resumed(h, IF ok THEN "created" ELSE "none",
                          IF ok THEN "none" ELSE "reply")
  /\ UNCHANGED <<gen, published, giveawayChannel, hostRole>>
  /\ UNCHANGED applicationVars
  /\ UNCHANGED serverVars

\* ------------------------------------------------------- application flow
\* the record kept of a step of the application flow
Applied(kind, u, reply, failed) ==
  Event(kind, u, reply, failed, Seen(NoObject))

\* history: u submits the modal with the values input; replaced tells
\* whether an entry with other values was in the Map
Submitted(u, input) ==
  [submitted |-> TRUE, latest |-> input,
   replaced |-> MapHas(pendingGiveaways, u) /\
                [f \in DOMAIN input |-> giveawayData(u)[f]] # input,
   forwards |-> 0]

\* a submission that keeps the entry the user already has
giveawayModal_KeepsFirst(u, input) ==
  /\ pendingGiveaways' =
       IF MapHas(pendingGiveaways, u) THEN pendingGiveaways
       ELSE MapSet(pendingGiveaways, u,
                   [key |-> u, title |-> input.title,
                    description |-> input.description,
                    duration |-> input.duration, conditions |-> input.conditions,
                    applicantId |-> u, applicantTag |-> Tag(u)])
  /\ applications' = [applications EXCEPT ![u] = Submitted(u, input)]
  /\ lastEvent' = Applied("giveawayModal", u, "agreeButton", "none")
  /\ UNCHANGED <<forwarding, modChannel, reviewVars>>
  /\ UNCHANGED wizardVars
  /\ UNCHANGED serverVars

\* modal giveawayModal submitted by u
giveawayModal(u, input) ==
  /\ pendingGiveaways' =
       MapSet(pendingGiveaways, u,
              [key |-> u, title |-> input.title, description |-> input.description,
               duration |-> input.duration, conditions |-> input.conditions,
               applicantId |-> u, applicantTag |-> Tag(u)])
  /\ applications' = [applications EXCEPT ![u] = Submitted(u, input)]
  /\ lastEvent' = Applied("giveawayModal", u, "agreeButton", "none")
  /\ UNCHANGED <<forwarding, modChannel, reviewVars>>
  /\ UNCHANGED wizardVars
  /\ UNCHANGED serverVars

\* agreeSubmission without the early return for a missing application
agreeSubmission_Unchecked(u) ==
  /\ UNCHANGED <<pendingGiveaways, modChannel, applications, reviewVars>>
  /\ UNCHANGED wizardVars
  /\ UNCHANGED serverVars
  /\ FreeForwards # {}
  /\ Len(modChannel) + (MaxInFlight - Cardinality(FreeForwards)) < MaxForwards
  /\ forwarding' = [forwarding EXCEPT ![FreeForward] =
                      [kind |-> "agreeSubmission", user |-> u,
                       pc |-> "channels.fetch",
                       message |-> ModMessage(giveawayData(u))]]
  /\ lastEvent' = Applied("agreeSubmission", u, "pending", "none")

\* button agreeSubmission clicked by u: get, early return, the message is
\* assembled, call of channels.fetch
agreeSubmission(u) ==
  /\ UNCHANGED <<pendingGiveaways, modChannel, applications, reviewVars>>
  /\ UNCHANGED wizardVars
  /\ UNCHANGED serverVars
  /\ IF ~MapHas(pendingGiveaways, u)
     THEN /\ lastEvent' = Applied("agreeSubmission", u, "noPendingApplication", "none")
          /\ UNCHANGED forwarding
     ELSE /\ FreeForwards # {}
          /\ Len(modChannel) + (MaxInFlight - Cardinality(FreeForwards)) < MaxForwards
          /\ forwarding' = [forwarding EXCEPT ![FreeForward] =
                              [kind |-> "agreeSubmission", user |-> u,
                               pc |-> "channels.fetch",
                               message |-> ModMessage(giveawayData(u))]]
          /\ lastEvent' = Applied("agreeSubmission", u, "pending", "none")

Forwarding(i, pc) == forwarding[i].kind = "agreeSubmission" /\ forwarding[i].pc = pc

\* client.channels.fetch settles: modChannel.send is called, or the handler
\* ends with an unhandled rejection
modChannelFetched(i, ok) ==
  LET h == forwarding[i] IN
  /\ Forwarding(i, "channels.fetch")
  /\ forwarding' = [forwarding EXCEPT ![i] =
                      IF ok THEN [h EXCEPT !.pc = "send"] ELSE NoForward]
  /\ lastEvent' = Applied(h.kind, h.user, IF ok THEN "pending" ELSE "none",
                          IF ok THEN "none" ELSE "channels.fetch")
  /\ UNCHANGED <<pendingGiveaways, modChannel, applications, reviewVars>>
  /\ UNCHANGED wizardVars
  /\ UNCHANGED serverVars

\* a rejected modChannel.send after which the application is deleted
modSendFails_Deletes(i) ==
  LET h == forwarding[i] IN
  /\ Forwarding(i, "send")
  /\ forwarding' = [forwarding EXCEPT ![i] = NoForward]
  /\ pendingGiveaways' = MapDelete(pendingGiveaways, h.user)
  /\ lastEvent' = Applied(h.kind, h.user, "none", "send")
  /\ UNCHANGED <<modChannel, applications, reviewVars>>
  /\ UNCHANGED wizardVars
  /\ UNCHANGED serverVars

\* modChannel.send rejects: unhandled rejection, nothing after it runs
modSendFails(i) ==
  LET h == forwarding[i] IN
  /\ Forwarding(i, "send")
  /\ forwarding' = [forwarding EXCEPT ![i] = NoForward]
  /\ lastEvent' = Applied(h.kind, h.user, "none", "send")
  /\ UNCHANGED <<pendingGiveaways, modChannel, applications, reviewVars>>
  /\ UNCHANGED wizardVars
  /\ UNCHANGED serverVars

\* a forward that leaves the application in pendingGiveaways
forwarded_KeepsEntry(i) ==
  LET h == forwarding[i] IN
  /\ Forwarding(i, "send")
  /\ modChannel' = Append(modChannel, h.message)
  /\ forwarding' = [forwarding EXCEPT ![i] = NoForward]
  /\ applications' = [applications EXCEPT ![h.user].forwards = @ + 1]
  /\ lastEvent' = Applied(h.kind, h.user, "forwarded", "none")
  /\ UNCHANGED <<pendingGiveaways, reviewVars>>
  /\ UNCHANGED wizardVars
  /\ UNCHANGED serverVars

\* modChannel.send resolves: pendingGiveaways.delete, interaction.update
forwarded(i) ==
  LET h == forwarding[i] IN
  /\ Forwarding(i, "send")
  /\ modChannel' = Append(modChannel, h.message)
  /\ pendingGiveaways' = MapDelete(pendingGiveaways, h.user)
  /\ forwarding' = [forwarding EXCEPT ![i] = NoForward]
  /\ applications' = [applications EXCEPT ![h.user].forwards = @ + 1]
  /\ lastEvent' = Applied(h.kind, h.user, "forwarded", "none")
  /\ UNCHANGED reviewVars
  /\ UNCHANGED wizardVars
  /\ UNCHANGED serverVars

\* ------------------------------------------------- moderators' decisions
Reviewing(i, pc) == reviewing[i].kind # "idle" /\ reviewing[i].pc = pc

\* a click whose applicant id is taken from the first message of the
\* channel instead of the button clicked
Review_First(kind, k) ==
  /\ k \in 1 .. Len(modChannel)
  /\ modChannel[k].buttons # ""
  /\ FreeReviews # {}
  /\ Len(inbox) + (MaxInFlight - Cardinality(FreeReviews)) < MaxDecisions
  /\ reviewing' = [reviewing EXCEPT ![FreeReview] =
                     [kind |-> kind, message |-> k,
                      applicantId |-> modChannel[1].applicant,
                      pc |-> "users.fetch"]]
  /\ lastEvent' = Applied(kind, modChannel[1].applicant, "pending", "none")
  /\ UNCHANGED <<pendingGiveaways, forwarding, modChannel, applications, inbox>>
  /\ UNCHANGED wizardVars
  /\ UNCHANGED serverVars

\* a moderator clicks the button kind ("approve_" or "deny_") of the k-th
\* message of the moderator channel: the applicant id is the part of the
\* custom id after the underscore, call of client.users.fetch
Review(kind, k) ==
  /\ k \in 1 .. Len(modChannel)
  /\ modChannel[k].buttons # ""
  /\ FreeReviews # {}
  /\ Len(inbox) + (MaxInFlight - Cardinality(FreeReviews)) < MaxDecisions
  /\ reviewing' = [reviewing EXCEPT ![FreeReview] =
                     [kind |-> kind, message |-> k,
                      applicantId |-> modChannel[k].buttons,
                      pc |-> "users.fetch"]]
  /\ lastEvent' = Applied(kind, modChannel[k].buttons, "pending", "none")
  /\ UNCHANGED <<pendingGiveaways, forwarding, modChannel, applications, inbox>>
  /\ UNCHANGED wizardVars
  /\ UNCHANGED serverVars

approve(k) == Review("approve_", k)

deny(k) == Review("deny_", k)

\* client.users.fetch settles: user.send is called, or the catch logs the
\* error and the handler goes on to interaction.update
applicantFetched(i, ok) ==
  LET h == reviewing[i] IN
  /\ Reviewing(i, "users.fetch")
  /\ reviewing' = [reviewing EXCEPT ![i].pc = IF ok THEN "user.send" ELSE "update"]
  /\ lastEvent' = Applied(h.kind, h.applicantId, "pending",
                          IF ok THEN "none" ELSE "users.fetch")
  /\ UNCHANGED <<pendingGiveaways, forwarding, modChannel, applications, inbox>>
  /\ UNCHANGED wizardVars
  /\ UNCHANGED serverVars

\* a rejected user.send that ends the handler instead of being caught
applicantNotified_Uncaught(i, ok) ==
  LET h == reviewing[i] IN
  /\ Reviewing(i, "user.send")
  /\ inbox' = IF ok THEN Append(inbox, [to |-> h.applicantId,
                                        notice |-> Notice(h.kind),
                                        about |-> h.message])
              ELSE inbox
  /\ reviewing' = [reviewing EXCEPT ![i] =
                     IF ok THEN [h EXCEPT !.pc = "update"] ELSE NoReview]
  /\ lastEvent' = Applied(h.kind, h.applicantId, IF ok THEN "pending" ELSE "none",
                          IF ok THEN "none" ELSE "user.send")
  /\ UNCHANGED <<pendingGiveaways, forwarding, modChannel, applications>>
  /\ UNCHANGED wizardVars
  /\ UNCHANGED serverVars

\* user.send settles: the applicant has the direct message, or the catch
\* logs the error; either way the handler goes on to interaction.update
applicantNotified(i, ok) ==
  LET h == reviewing[i] IN
  /\ Reviewing(i, "user.send")
  /\ inbox' = IF ok THEN Append(inbox, [to |-> h.applicantId,
                                        notice |-> Notice(h.kind),
                                        about |-> h.message])
              ELSE inbox
  /\ reviewing' = [reviewing EXCEPT ![i].pc = "update"]
  /\ lastEvent' = Applied(h.kind, h.applicantId, "pending",
                          IF ok THEN "none" ELSE "user.send")
  /\ UNCHANGED <<pendingGiveaways, forwarding, modChannel, applications>>
  /\ UNCHANGED wizardVars
  /\ UNCHANGED serverVars

\* interaction.update settles: the moderator message carries the decision
\* and no components and the moderator gets the follow-up, or the handler
\* ends with an unhandled rejection and the message stays as it was
decisionRecorded(i, ok) ==
  LET h == reviewing[i] IN
  /\ Reviewing(i, "update")
  /\ modChannel' = IF ok
                   THEN [modChannel EXCEPT ![h.message] =
                           [@ EXCEPT !.footer = Footer(h.kind), !.buttons = ""]]
                   ELSE modChannel
  /\ reviewing' = [reviewing EXCEPT ![i] = NoReview]
  /\ lastEvent' = Applied(h.kind, h.applicantId, IF ok THEN "followUp" ELSE "none",
                          IF ok THEN "none" ELSE "update")
  /\ UNCHANGED <<pendingGiveaways, forwarding, applications, inbox>>
  /\ UNCHANGED wizardVars
  /\ UNCHANGED serverVars

\* ------------------------------------------------------------ the process
\* client.login rejects: the catch calls process.exit(1)
loginFails ==
  /\ client.status = "login"
  /\ client' = [client EXCEPT !.status = "exited"]
  /\ UNCHANGED app
  /\ UNCHANGED <<wizardVars, applicationVars, lastEvent, notifyVars, rateVars>>

\* app.listen(port)
listen == [app EXCEPT !.listens = @ + 1]

\* the client emits 'ready'.  The listener added with client.once runs for
\* the first emission only: without the guild it warns and calls app.listen,
\* with the guild it calls guild.commands.create first
onReady(guildFound) ==
  /\ client.status \in {"login", "ready"}
  /\ client.emitted < MaxReady
  /\ IF client.ready = "once"
     THEN /\ client' = [status |-> "ready",
                        ready |-> IF guildFound THEN "commands.create" ELSE "returned",
                        command |-> IF guildFound THEN "none" ELSE "no guild",
                        emitted |-> client.emitted + 1]
          /\ app' = IF guildFound THEN app ELSE listen
     ELSE /\ client' = [client EXCEPT !.status = "ready", !.emitted = @ + 1]
          /\ UNCHANGED app
  /\ UNCHANGED <<wizardVars, applicationVars, lastEvent, notifyVars, rateVars>>

\* a failed guild.commands.create that is not caught: app.listen is not
\* reached
commandRegistered_Uncaught(ok) ==
  /\ client.status = "ready"
  /\ client.ready = "commands.create"
  /\ client' = [client EXCEPT !.ready = "returned",
                             !.command = IF ok THEN "registered" ELSE "failed"]
  /\ app' = IF ok THEN listen ELSE app
  /\ UNCHANGED <<wizardVars, applicationVars, lastEvent, notifyVars, rateVars>>

\* guild.commands.create settles: the command is registered or the catch
\* logs the error, then app.listen is called
commandRegistered(ok) ==
  /\ client.status = "ready"
  /\ client.ready = "commands.create"
  /\ client' = [client EXCEPT !.ready = "returned",
                             !.command = IF ok THEN "registered" ELSE "failed"]
  /\ app' = listen
  /\ UNCHANGED <<wizardVars, applicationVars, lastEvent, notifyVars, rateVars>>

\* SIGTERM: client.destroy(), process.exit(0)
SIGTERM ==
  /\ client.status # "exited"
  /\ client' = [client EXCEPT !.status = "exited"]
  /\ UNCHANGED app
  /\ UNCHANGED <<wizardVars, applicationVars, lastEvent, notifyVars, rateVars>>

\* the HTTP server accepts connections
Listening == app.listens > 0 /\ client.status # "exited"

\* ---------------------------------------------------------------- /notify
\* the process starts: process.env.DISCORD_INTEGRATION_ENABLED === 'true'
loadEnv(flag) ==
  /\ integration = "unread"
  /\ integration' = flag
  /\ UNCHANGED <<notifying, dms, lastNotify>>
  /\ UNCHANGED <<wizardVars, applicationVars, lastEvent, rateVars, processVars>>

\* the handler up to its first await: the response it returns early, "throw"
\* where a TypeError leaves the handler (status.toLowerCase of a value that
\* is no string, payload.details of null), or "fetch" where it reaches
\* client.users.fetch
Validated(req, ready) ==
  IF integration # "true" THEN "503 disabled"
  ELSE IF req.discordId.t # "string" \/ req.discordId.chars = <<>>
          \/ Falsy(req.status) THEN "400 missing"
  ELSE IF ~discordIdRegex(req.discordId) THEN "400 id"
  ELSE IF ~ready THEN "503 not ready"
  ELSE IF req.status.t # "string" THEN "throw"
  ELSE IF toLowerCase(req.status.v) \notin validStatuses THEN "400 status"
  ELSE IF req.payload.t = "null" THEN "throw"
  ELSE "fetch"

\* what becomes of an exception that leaves the async handler: the rejection
\* is unhandled and the request gets no response, or the framework's error
\* handler answers 500, depending on the framework version
Uncaught == {"none", "500"}

\* POST /notify arrives; ready is client.isReady()
notify(req, ready) ==
  LET v == Validated(req, ready) IN
  /\ integration # "unread"
  /\ notifying.pc = "idle"
  /\ Len(dms) < MaxDMs
  /\ UNCHANGED <<integration, dms>>
  /\ UNCHANGED <<wizardVars, applicationVars, lastEvent, rateVars, processVars>>
  /\ CASE v = "fetch" ->
            /\ notifying' = [pc |-> "users.fetch", req |-> req, sends |-> 0]
            /\ lastNotify' = Handled(req, "pending", 0)
       [] v = "throw" ->
            /\ \E r \in Uncaught : lastNotify' = Handled(req, r, 0)
            /\ UNCHANGED notifying
       [] OTHER ->
            /\ lastNotify' = Handled(req, v, 0)
            /\ UNCHANGED notifying

\* client.users.fetch settles: 404, or user.send is called
userFetched(ok) ==
  /\ notifying.pc = "users.fetch"
  /\ notifying' = IF ok THEN [notifying EXCEPT !.pc = "send", !.sends = @ + 1]
                  ELSE NoNotify
  /\ lastNotify' = Handled(notifying.req, IF ok THEN "pending" ELSE "404",
                           IF ok THEN 1 ELSE 0)
  /\ UNCHANGED <<integration, dms>>
  /\ UNCHANGED <<wizardVars, applicationVars, lastEvent, rateVars, processVars>>

\* user.send settles: 200, or the catch answers 500
dmSent(ok) ==
  /\ notifying.pc = "send"
  /\ dms' = IF ok THEN Append(dms, [to |-> notifying.req.discordId,
                                    text |-> message(notifying.req)])
            ELSE dms
  /\ notifying' = NoNotify
  /\ lastNotify' = Handled(notifying.req, IF ok THEN "200" ELSE "500",
                           notifying.sends)
  /\ UNCHANGED integration
  /\ UNCHANGED <<wizardVars, applicationVars, lastEvent, rateVars, processVars>>

\* -------------------------------------------------------------- rate limit
\* time passes
tick ==
  /\ now < MaxTicks * Tick
  /\ now' = now + Tick
  /\ UNCHANGED <<rateLimits, admitted, lastRate>>
  /\ UNCHANGED <<wizardVars, applicationVars, lastEvent, notifyVars, processVars>>

\* the count at which the middleware answers 429, tested with > for >=
AtLimit_Above(count) == count > RateLimit

\* rateLimits[ip].count >= 10
AtLimit(count) == count >= RateLimit

\* now - rateLimits[ip].timestamp < 60000
InWindow(timestamp) == now - timestamp < Window

\* history: a request of ip is passed on at the time now; the window of an
\* ip starts with its first request that is passed on outside a started
\* window
Admit(ip) ==
  LET a == admitted[ip] IN
  [admitted EXCEPT ![ip] =
     IF a.passed > 0 /\ now - a.start < Window
     THEN [a EXCEPT !.passed = @ + 1]
     ELSE [start |-> now, passed |-> 1]]

\* a request of ip reaches the middleware: next() or 429
rateLimit(ip) ==
  /\ UNCHANGED now
  /\ UNCHANGED <<wizardVars, applicationVars, lastEvent, notifyVars, processVars>>
  /\ IF ~MapHas(rateLimits, ip)
     THEN /\ rateLimits' = MapSet(rateLimits, ip,
                                  [key |-> ip, count |-> 1, timestamp |-> now])
          /\ admitted' = Admit(ip)
          /\ lastRate' = [ip |-> ip, outcome |-> "next"]
     ELSE IF InWindow(Entry(ip).timestamp)
     THEN IF AtLimit(Entry(ip).count)
          THEN /\ lastRate' = [ip |-> ip, outcome |-> "429"]
               /\ UNCHANGED <<rateLimits, admitted>>
          ELSE /\ rateLimits' = MapSet(rateLimits, ip,
                                       [Entry(ip) EXCEPT !.count = @ + 1])
               /\ admitted' = Admit(ip)
               /\ lastRate' = [ip |-> ip, outcome |-> "next"]
     ELSE /\ rateLimits' = MapSet(rateLimits, ip,
                                  [key |-> ip, count |-> 1, timestamp |-> now])
          /\ admitted' = Admit(ip)
          /\ lastRate' = [ip |-> ip, outcome |-> "next"]

\* ------------------------------------------------------------------- Next
\* an interaction of user u with a running wizard arrives; B, E, V, M are
\* the values the four modals may carry
Continue(u, tgt, B, E, V, M) ==
  \/ \E input \in B : basicInfoModal(u, tgt, input)
  \/ \E input \in E : entryRequirementsModal(u, tgt, input)
  \/ \E input \in V : customVisualModal(u, tgt, input)
  \/ \E input \in M : customMsgModal(u, tgt, input)
  \/ submitGiveaway(u, tgt)

\* an interaction of user u arrives
Interaction(u, tgt, B, E, V, M) ==
  \/ hostGiveaway(u, tgt)
  \/ Continue(u, tgt, B, E, V, M)

\* an await of a suspended handler settles
Resume(i) ==
  \/ channelFetchFails(i)
  \/ giveawayChannelMissing(i)
  \/ channelFetched(i)
  \/ sendFails(i)
  \/ \E guildFound \in BOOLEAN : giveawaySent(i, guildFound)
  \/ \E ok \in BOOLEAN : memberFetched(i, ok)
  \/ \E ok \in BOOLEAN : roleAdded(i, ok)
  \/ \E ok \in BOOLEAN : replied(i, ok)

\* an interaction of user u whose custom id no branch of the wizard listener
\* tests (a cancel button, say): the else-if chain ends without an else, so
\* the listener returns without a reply and without touching the Map
otherInteraction(u) ==
  /\ lastEvent' = Event("other", u, "none", "none", Seen(builderSession(u)))
  /\ UNCHANGED <<wizardVars, applicationVars>>
  /\ UNCHANGED serverVars

\* an interaction of the application flow arrives from user u
Application(u) ==
  \/ \E input \in ApplicationInputs : giveawayModal(u, input)
  \/ agreeSubmission(u)

\* an await of a suspended agreeSubmission handler settles
ResumeForward(i) ==
  \/ \E ok \in BOOLEAN : modChannelFetched(i, ok)
  \/ modSendFails(i)
  \/ forwarded(i)

\* One owner runs the wizard and every interaction is handled to its end
\* before the next one of that owner arrives (the flow the user interface
\* produces: one click or submission at a time).
NextOwner ==
  \/ \E tgt \in Users :
       ~Busy("U1") /\ Interaction("U1", tgt, BasicInputs, EntryInputs,
                                  VisualInputs, MsgInputs)
  \/ \E i \in Slots : Resume(i)

SpecOwner == Init /\ [][NextOwner]_vars

\* The same owner, who may also send interactions the wizard has no branch
\* for, while time passes.
NextAbandon ==
  \/ NextOwner
  \/ ~Busy("U1") /\ otherInteraction("U1")
  \/ tick

SpecAbandon == Init /\ [][NextAbandon]_vars

\* the basic information both users submit when two users run the wizard
PlainBasic == {b \in BasicInputs : b["winners"] = Str("5")}

\* Two users run the wizard with the button and the modals made for U1: U1
\* is the owner they are addressed to, U2 a user who got hold of them.  The
\* handlers of different users interleave at their awaits, the interactions
\* of one user are handled one at a time.
NextUsers ==
  \/ \E u \in Users :
       ~Busy(u) /\ Interaction(u, "U1", PlainBasic, EntryInputs,
                               VisualInputs, MsgInputs)
  \/ \E i \in Slots : Resume(i)

SpecUsers == Init /\ [][NextUsers]_vars

\* One owner runs the wizard once; an interaction may be delivered while an
\* earlier one is still suspended at an await (a double click, a duplicated
\* delivery).
NextDup ==
  \/ \E tgt \in Users : gen["U1"] = 0 /\ hostGiveaway("U1", tgt)
  \/ \E tgt \in Users :
       Continue("U1", tgt, PlainBasic, EntryInputs, VisualInputs, MsgInputs)
  \/ \E i \in Slots : Resume(i)

SpecDup == Init /\ [][NextDup]_vars

\* One user applies and runs the wizard, one interaction at a time.
NextBoth ==
  \/ \E tgt \in Users :
       /\ ~Busy("U1") /\ ~Agreeing("U1")
       /\ Interaction("U1", tgt, PlainBasic, EntryInputs, VisualInputs, MsgInputs)
  \/ ~Busy("U1") /\ ~Agreeing("U1") /\ Application("U1")
  \/ \E i \in Slots : Resume(i)
  \/ \E i \in Slots : ResumeForward(i)

SpecBoth == Init /\ [][NextBoth]_vars

\* The process reads its environment and serves POST /notify, one request
\* at a time.
NextNotify ==
  \/ \E flag \in {"true", "false"} : loadEnv(flag)
  \/ \E req \in Requests, ready \in BOOLEAN : notify(req, ready)
  \/ \E ok \in BOOLEAN : userFetched(ok)
  \/ \E ok \in BOOLEAN : dmSent(ok)

SpecNotify == Init /\ [][NextNotify]_vars

\* Requests of two addresses reach the middleware while time passes.
NextRate ==
  \/ tick
  \/ \E ip \in IPs : rateLimit(ip)

SpecRate == Init /\ [][NextRate]_vars

\* Two users apply, each one interaction at a time.
NextApply ==
  \/ \E u \in Users : ~Agreeing(u) /\ Application(u)
  \/ \E i \in Slots : ResumeForward(i)

SpecApply == Init /\ [][NextApply]_vars

\* the application both users submit when the moderators decide
PlainApplications == {a \in ApplicationInputs : a.conditions = "18+"}

\* a moderator clicks a button of a message of the moderator channel
Moderation ==
  \E k \in 1 .. MaxForwards : approve(k) \/ deny(k)

\* an await of a suspended approve_ or deny_ handler settles
ResumeReview(i) ==
  \/ \E ok \in BOOLEAN : applicantFetched(i, ok)
  \/ \E ok \in BOOLEAN : applicantNotified(i, ok)
  \/ \E ok \in BOOLEAN : decisionRecorded(i, ok)

\* Two users apply, each one interaction at a time, and the moderators
\* decide; the clicks of the moderators may arrive while an earlier one is
\* still being handled.
NextReview ==
  \/ \E u \in Users, input \in PlainApplications :
       ~Agreeing(u) /\ giveawayModal(u, input)
  \/ \E u \in Users : ~Agreeing(u) /\ agreeSubmission(u)
  \/ \E i \in Slots : ResumeForward(i)
  \/ Moderation
  \/ \E i \in Slots : ResumeReview(i)

SpecReview == Init /\ [][NextReview]_vars

\* the requests sent to the starting process: no payload, and a status
\* that is missing or valid
PlainRequests ==
  [discordId : IdInputs, status : {Undefined, Str("approved")},
   payload : {[t |-> "undefined", details |-> Undefined]}]

\* The process starts: it reads its environment, logs in, and serves
\* POST /notify, one request at a time, once the server listens.
NextStart ==
  \/ \E flag \in {"true", "false"} : loadEnv(flag)
  \/ integration # "unread" /\ loginFails
  \/ \E guildFound \in BOOLEAN : integration # "unread" /\ onReady(guildFound)
  \/ \E ok \in BOOLEAN : commandRegistered(ok)
  \/ integration # "unread" /\ SIGTERM
  \/ \E req \in PlainRequests, isReady \in BOOLEAN :
       Listening /\ notify(req, isReady)
  \/ \E ok \in BOOLEAN : client.status # "exited" /\ userFetched(ok)
  \/ \E ok \in BOOLEAN : client.status # "exited" /\ dmSent(ok)

SpecStart == Init /\ [][NextStart]_vars


\* ================================================================= claims
Has(u) == MapHas(giveawayBuilders, u)

\* the messages in the giveaway channel that user u hosts
PostsBy(u) ==
  Cardinality({k \in 1 .. Len(giveawayChannel) : giveawayChannel[k] = u})

Confirm(u) == lastEvent.kind = "submitGiveaway" /\ lastEvent.user = u

SessionsOf(u) == {e \in giveawayBuilders : e.key = u}

StageKinds == {"basicInfoModal", "entryRequirementsModal", "customVisualModal",
               "customMsgModal"}

\* the step a session is at when it awaits the modal: AwaitingBasicInfo is
\* step 1, ..., AwaitingMessages step 4, ReadyToSubmit step 5
AwaitedAt(kind) ==
  CASE kind = "basicInfoModal" -> 1
    [] kind = "entryRequirementsModal" -> 2
    [] kind = "customVisualModal" -> 3
    [] kind = "customMsgModal" -> 4

\* C2: a modal submission for a stage other than the one the session is at
\* is rejected as a stale interaction and changes neither the fields nor the
\* step of the session.
C2_StaleRejected ==
  [][\A u \in Users :
       ( /\ lastEvent'.user = u
         /\ lastEvent'.kind \in StageKinds
         /\ Has(u)
         /\ builderSession(u).step # AwaitedAt(lastEvent'.kind) )
       => ( /\ lastEvent'.reply = "staleInteraction"
            /\ giveawayBuilders' = giveawayBuilders )]_vars

\* C3: the Map never holds two sessions of one owner, and right after a
\* start the owner's session is the fresh one: step 1 (AwaitingBasicInfo) and
\* no field set, whatever session the owner had before.
C3_OneSessionFreshOnStart ==
  \A u \in Users :
    /\ Cardinality(SessionsOf(u)) <= 1
    /\ (lastEvent.kind = "hostGiveaway_" /\ lastEvent.user = u) =>
         SessionsOf(u) = {[key |-> u, step |-> 1,
                           data |-> [f \in Fields |-> Undefined]]}

\* the owner started again over a session in which every modal was saved
C3_Witness ==
  /\ lastEvent.kind = "hostGiveaway_" /\ lastEvent.user = "U1"
  /\ lastEvent.step = 5 /\ lastEvent.full
  /\ Has("U1") /\ builderSession("U1").step = 1

\* the step is the arrival of a modal submission or of a confirm sent by u
\* (the interactions of one user being handled one at a time); the modal or
\* button may have been made for any owner
Arrives(u) ==
  /\ lastEvent'.user = u
  /\ lastEvent'.kind \in StageKinds \cup {"submitGiveaway"}
  /\ ~Busy(u)

C5_SessionsIsolated ==
  [][\A u \in Users : lastEvent'.user # u => SessionsOf(u)' = SessionsOf(u)]_vars

\* U2 ran the wizard to the end and confirmed while U1 kept a session with
\* saved modals
C5_Witness ==
  /\ Confirm("U2") /\ lastEvent.reply = "created" /\ ~Has("U2")
  /\ Has("U1") /\ builderSession("U1").step = 3

\* the winner counts the field label asks for (1-20), as the modal delivers
\* them
PositiveWinners == {"1", "2", "3", "4", "5", "6", "7", "8", "9", "10", "11",
                    "12", "13", "14", "15", "16", "17", "18", "19", "20"}

\* C6: at AwaitingBasicInfo a basic-info submission whose winners value is a
\* positive integer advances the session and stores that value; any other
\* winners value is answered with a validation error and leaves step and
\* fields as they were.
C6_WinnersValidated ==
  [][\A u \in Users, input \in BasicInputs :
       ( /\ lastEvent'.user = u /\ lastEvent'.kind = "basicInfoModal"
         /\ Has(u) /\ builderSession(u).step = 1
         /\ \E tgt \in Users : basicInfoModal(u, tgt, input) )
       => IF input["winners"].v \in PositiveWinners
          THEN /\ builderSession(u)'.step = 2
               /\ builderSession(u)'.data["winners"].v = input["winners"].v
          ELSE /\ lastEvent'.reply = "validationError"
               /\ giveawayBuilders' = giveawayBuilders]_vars

\* C7: a confirm whose channel post failed (the channel could not be
\* fetched, or the send was rejected) reports the failure to the owner and
\* leaves the owner without a session.
C7_FailedPostCleansUp ==
  \A u \in Users :
    (Confirm(u) /\ lastEvent.failed \in {"channels.fetch", "send"}) =>
      (lastEvent.reply # "none" /\ ~Has(u))

\* the handlers of user u that are past the channel post
PastPost(u) ==
  {i \in Slots : /\ inflight[i].kind = "submitGiveaway" /\ inflight[i].user = u
                 /\ inflight[i].pc \in {"members.fetch", "roles.add", "reply"}}

\* C8: once the channel post of a confirm has succeeded the announcement
\* stays in the channel; a failure of the role grant (guild not cached,
\* member fetch or role add rejected) leaves the handler on its way to the
\* reply, and the confirm ends with the session removed.
C8_RoleGrantIndependent ==
  \A u \in Users :
    /\ PastPost(u) # {} => PostsBy(u) >= 1
    /\ (Confirm(u) /\ lastEvent.failed \in {"guilds.cache.get", "members.fetch",
                                            "roles.add"}) =>
         (\E i \in PastPost(u) : inflight[i].pc = "reply")
    /\ (Confirm(u) /\ lastEvent.reply = "created") => (~Has(u) /\ PostsBy(u) >= 1)

\* a confirm ended with the announcement posted and the session removed
\* although the host role was not granted
C8_Witness ==
  /\ Confirm("U1") /\ lastEvent.reply = "created"
  /\ "U1" \notin hostRole /\ PostsBy("U1") = 1 /\ ~Has("U1")

\* C9: of two events of one owner that are in flight at once at most one
\* performs the transition: a confirm delivered twice does not post two
\* announcements for one wizard run (every confirmation reply that was
\* attempted having been delivered).
C9_NoDoublePost ==
  \A u \in Users \ undelivered : published[u] <= 1

\* C10: a modal submission or a confirm of a user who has no wizard session,
\* and a click on 'I Agree' of a user who has no pending application, are
\* answered with the not-found reply; the step creates no session and no
\* application, starts no handler, and posts nothing to the giveaway channel,
\* grants no role and sends nothing to the moderators.
C10_MissingSessionRejected ==
  [][\A u \in Users :
       /\ (Arrives(u) /\ ~Has(u))
          => (lastEvent'.reply = "noBuilderSession"
              /\ UNCHANGED <<wizardVars, applicationVars>>)
       /\ ( /\ lastEvent'.user = u /\ lastEvent'.kind = "agreeSubmission"
            /\ ~Agreeing(u) /\ ~MapHas(pendingGiveaways, u) )
          => (lastEvent'.reply = "noPendingApplication"
              /\ UNCHANGED <<wizardVars, applicationVars>>)]_vars

\* the user clicked 'I Agree' again after the application was forwarded, and
\* has no wizard session either: nothing but the first message reached the
\* moderators
C10_Witness ==
  /\ lastEvent.kind = "agreeSubmission" /\ lastEvent.user = "U1"
  /\ lastEvent.reply = "noPendingApplication"
  /\ pendingGiveaways = {} /\ ~Has("U1") /\ ~Agreeing("U1")
  /\ Len(modChannel) = 1 /\ giveawayChannel = <<>> /\ hostRole = {}

\* C11: the step of a session never decreases between the start that created
\* it and its removal.
C11_StageNeverBack ==
  [][\A u \in Users :
       (Has(u) /\ Has(u)' /\ lastEvent'.kind # "hostGiveaway_")
       => builderSession(u)'.step >= builderSession(u).step]_vars

\* the text entries of the announcement: its title, description, colour and
\* the nine fields (thumbnail and image are pictures)
TextKeys == EmbedKeys \ {"thumbnail", "image"}

\* the optional inputs of the wizard that the announcement renders, by entry
\* of the announcement
OptionalField ==
  [color |-> "embedColor", requiredRoles |-> "requiredRoles",
   customEntry |-> "customEntry", startMessage |-> "startMessage",
   winnerMessage |-> "winnerMessage", entryConfirmation |-> "entryConfirmation"]

\* the default each of them is rendered as
Sentinel ==
  [color |-> "#00BFFF", requiredRoles |-> "None", customEntry |-> "None",
   startMessage |-> "N/A", winnerMessage |-> "N/A", entryConfirmation |-> "N/A"]

C13_BasicInfoStored ==
  [][\A u \in Users, input \in BasicInputs :
       ( /\ Has(u) /\ builderSession(u).step = 1
         /\ lastEvent'.user = u /\ lastEvent'.kind = "basicInfoModal"
         /\ \E tgt \in Users : basicInfoModal(u, tgt, input) )
       => /\ lastEvent'.reply = "saved"
          /\ builderSession(u)'.step = 2
          /\ \A f \in BasicFields : builderSession(u)'.data[f] = input[f]]_vars

\* right after the start the owner submitted the basic information
C13_Witness ==
  /\ lastEvent.kind = "basicInfoModal" /\ lastEvent.user = "U1"
  /\ lastEvent.reply = "saved" /\ lastEvent.step = 1 /\ ~lastEvent.full
  /\ builderSession("U1").step = 2
  /\ builderSession("U1").data["title"] = Str("Holiday Drop")
  /\ builderSession("U1").data["winners"] = Str("5")
  /\ builderSession("U1").data["membership"] = Undefined

\* the fields the modal of each kind writes
FieldsOf(kind) ==
  CASE kind = "basicInfoModal" -> BasicFields
    [] kind = "entryRequirementsModal" -> EntryFields
    [] kind = "customVisualModal" -> VisualFields
    [] kind = "customMsgModal" -> MsgFields

\* the step is a saved modal submission of u and it leaves every field of
\* the other modals as it was; or the step is none
WritesOwnFields(u) ==
  (lastEvent'.user = u /\ lastEvent'.kind \in StageKinds /\ Has(u))
  => \A f \in Fields \ FieldsOf(lastEvent'.kind) :
       builderSession(u)'.data[f] = builderSession(u).data[f]

\* C14: a saved modal submission writes only the fields of its own modal and
\* leaves the fields of the other modals as they were, and a session at step
\* 5 (ReadyToSubmit) holds the values of all four modals.
C14_AdditiveUntilReady ==
  [][\A u \in Users :
       /\ WritesOwnFields(u)
       /\ (Has(u)' /\ builderSession(u)'.step = 5)
          => Full(builderSession(u)'.data)]_vars

\* C15: a cancel event of an owner who has a session removes the session, and
\* publishes nothing.
C15_CancelRemoves ==
  [][\A u \in Users :
       (lastEvent'.kind = "other" /\ lastEvent'.user = u /\ Has(u))
       => (~Has(u)' /\ giveawayChannel' = giveawayChannel)]_vars

\* the requests the claim lets through: a discordId of 17 to 19 digits and a
\* status that is submitted, approved or rejected in any letter case
WellFormed(req) ==
  /\ discordIdRegex(req.discordId)
  /\ req.status.t = "string"
  /\ toLowerCase(req.status.v) \in validStatuses

ErrorResponses == {"400 missing", "400 id", "400 status", "503 disabled",
                   "503 not ready", "404", "500"}

\* C16: a direct message is sent only for a well-formed request while the
\* integration is enabled; every other request is answered with an error
\* response and no send is attempted for it; no request has more than one
\* send attempted; the message sent is the template of the status followed
\* by the details when payload.details is given.
C16_NotifyValidated ==
  [][/\ dms' # dms =>
          /\ integration = "true" /\ WellFormed(notifying.req)
          /\ dms' = Append(dms, [to |-> notifying.req.discordId,
                                 text |-> message(notifying.req)])
     /\ lastNotify'.sends <= 1
     /\ (lastNotify' # lastNotify
         /\ ~(integration = "true" /\ WellFormed(lastNotify'.req)))
        => (lastNotify'.response \in ErrorResponses /\ lastNotify'.sends = 0)]_vars

\* C17: an announcement is posted only from a session at step 5
\* (ReadyToSubmit) in which all four modals were saved since its start.
C17_PublishedOnlyWhenReady ==
  \A u \in Users :
    (Confirm(u) /\ lastEvent.sent # NoEmbed) =>
      (lastEvent.step = 5 /\ lastEvent.full)

\* C18: a saved modal submission moves the session on by exactly one step;
\* a saved customVisualModal leaves the session at step 4 (AwaitingMessages).
C18_AdvancesByOne ==
  [][\A u \in Users :
       ( /\ lastEvent'.user = u /\ lastEvent'.kind \in StageKinds
         /\ lastEvent'.reply = "saved"
         /\ builderSession(u).step = AwaitedAt(lastEvent'.kind) )
       => builderSession(u)'.step = builderSession(u).step + 1]_vars

\* C20: of the requests of one address at most 10 are passed on within the
\* 60000 ms that start at its first counted request; a request that arrives
\* in that window after 10 were passed on is answered 429, is not passed on
\* and changes nothing; the stored count never exceeds 10; a request of one
\* address leaves the count and window of every other address as they were.
C20_RateLimited ==
  [][/\ \A ip \in IPs :
          /\ admitted'[ip].passed <= RateLimit
          /\ MapHas(rateLimits', ip) => MapEntry(rateLimits', ip).count <= RateLimit
          /\ ( /\ lastRate'.ip = ip /\ now' = now
               /\ admitted[ip].passed = RateLimit
               /\ now - admitted[ip].start < Window )
             => (lastRate'.outcome = "429" /\ UNCHANGED <<rateLimits, admitted>>)
          /\ (now' = now /\ lastRate'.ip # ip)
             => ( /\ {e \in rateLimits' : e.key = ip} = {e \in rateLimits : e.key = ip}
                  /\ admitted'[ip] = admitted[ip] )]_vars

\* the eleventh request of an address within its window was answered 429
\* while the other address had requests passed on
C20_Witness ==
  /\ lastRate = [ip |-> "10.0.0.1", outcome |-> "429"]
  /\ MapHas(rateLimits, "10.0.0.1") /\ Entry("10.0.0.1").count = 10
  /\ admitted["10.0.0.1"].passed = 10
  /\ now - Entry("10.0.0.1").timestamp = Tick
  /\ MapHas(rateLimits, "10.0.0.2") /\ Entry("10.0.0.2").count = 3

\* C19: the session of an owner leaves the Map only in the step that ends the
\* owner's own confirm (the reply delivered, then the delete); no other
\* interaction, no failure and no passage of time removes it.
C19_NeverReaped ==
  [][\A u \in Users :
       (Has(u) /\ ~Has(u)')
       => ( /\ lastEvent'.kind = "submitGiveaway" /\ lastEvent'.user = u
            /\ lastEvent'.reply = "created" /\ now' = now )]_vars

\* the owner started, saved all four modals, had a confirm fail at the send,
\* and two windows of the rate limiter later still has the session
C19_Witness ==
  /\ Confirm("U1") /\ lastEvent.failed = "send" /\ lastEvent.full
  /\ now = 4 * Tick
  /\ Has("U1") /\ builderSession("U1").step = 5
  /\ giveawayChannel = <<>>


\* a /notify request has reached its handler
Served == lastNotify # Handled(NoRequest, "none", 0) \/ notifying.pc # "idle"

\* C21: the HTTP server starts listening only after the client's 'ready'
\* event: no /notify request is handled before the bot is ready, app.listen
\* is called at most once, and it has been called when the 'ready' listener
\* returns, also when the guild is not found or registering the command
\* fails.
C21_ListenAfterReady ==
  /\ app.listens <= 1
  /\ app.listens > 0 => client.emitted > 0 /\ client.ready = "returned"
  /\ Served => client.emitted > 0 /\ app.listens = 1
  /\ client.ready = "returned" => app.listens = 1
  /\ client.command \in {"no guild", "failed"} => app.listens = 1

\* registering the command failed, 'ready' was emitted twice, and a request
\* was answered by the server that listens
C21_Witness ==
  /\ client.command = "failed" /\ client.emitted = 2
  /\ app.listens = 1 /\ lastNotify.response = "200"


\* the direct messages that decisions on the k-th moderator message sent
DecisionsOn(k) == {n \in 1 .. Len(inbox) : inbox[n].about = k}

\* C22: each forwarded application receives at most one decision: one
\* approval or one denial message to the applicant, never both and never
\* twice, also when two clicks on the same message are handled
\* concurrently.
C22_OneDecision ==
  \A k \in 1 .. Len(modChannel) : Cardinality(DecisionsOn(k)) <= 1


\* user u clicks 'I Agree' in this step (no handler of u is suspended)
Agrees(u) ==
  /\ ~Agreeing(u)
  /\ lastEvent'.kind = "agreeSubmission" /\ lastEvent'.user = u

\* C23: when the 'I Agree' events of a user are handled one after another,
\* each submitted modal is forwarded at most once: the forward deletes the
\* pending entry, and an 'I Agree' that follows without a new submission is
\* answered 'No pending giveaway application found' and sends nothing.
C23_ForwardedOnce ==
  [][\A u \in Users :
       /\ applications'[u].forwards <= 1
       /\ lastEvent'.user = u /\ lastEvent'.reply = "forwarded"
            => ~MapHas(pendingGiveaways', u)
       /\ Agrees(u) /\ applications[u].forwards >= 1
            => /\ lastEvent'.reply = "noPendingApplication"
               /\ UNCHANGED <<modChannel, forwarding, pendingGiveaways>>]_vars

\* U1's application was forwarded and the next 'I Agree' of U1 was rejected
C23_Witness ==
  /\ applications["U1"].forwards = 1
  /\ \E k \in 1 .. Len(modChannel) : modChannel[k].applicant = "U1"
  /\ lastEvent.kind = "agreeSubmission" /\ lastEvent.user = "U1"
  /\ lastEvent.reply = "noPendingApplication"


\* the values of an entry of pendingGiveaways, as the modal carried them
Values(e) ==
  [title |-> e.title, description |-> e.description, duration |-> e.duration,
   conditions |-> e.conditions]

\* C24: a pending application is deleted only after the message to the
\* moderator channel was sent: when fetching the channel or sending fails,
\* the entry is still in pendingGiveaways with the content the user
\* submitted and no handler of the user is left, so that 'I Agree' can be
\* clicked again; an entry leaves the Map only in the step that delivers its
\* message.
C24_DeletedAfterSend ==
  [][\A u \in Users :
       /\ /\ lastEvent'.kind = "agreeSubmission" /\ lastEvent'.user = u
          /\ lastEvent'.failed \in {"channels.fetch", "send"}
          => /\ UNCHANGED <<pendingGiveaways, modChannel>>
             /\ MapHas(pendingGiveaways', u)
             /\ Values(MapEntry(pendingGiveaways', u)) = applications[u].latest
             /\ ~Agreeing(u)'
       /\ MapHas(pendingGiveaways, u) /\ ~MapHas(pendingGiveaways', u)
          => /\ lastEvent'.reply = "forwarded" /\ lastEvent'.user = u
             /\ modChannel' = Append(modChannel,
                                     ModMessage(MapEntry(pendingGiveaways, u)))]_vars

\* sending U1's application failed and its entry is kept, while the
\* application of U2 has reached the moderators
C24_Witness ==
  /\ lastEvent.kind = "agreeSubmission" /\ lastEvent.user = "U1"
  /\ lastEvent.failed = "send"
  /\ MapHas(pendingGiveaways, "U1")
  /\ \E k \in 1 .. Len(modChannel) : modChannel[k].applicant = "U2"


Decisions == {"approve_", "deny_"}

\* C25: on approve and on deny, a failure to fetch the applicant or to send
\* the direct message does not stop the decision from being recorded: the
\* handler goes on to interaction.update, and when the update goes through
\* the moderator message carries the decision and no buttons and the
\* moderator gets the follow-up.
C25_DecisionRecorded ==
  [][/\ /\ lastEvent'.kind \in Decisions
        /\ lastEvent'.failed \in {"users.fetch", "user.send"}
        => \E i \in Slots :
             /\ reviewing[i].pc \in {"users.fetch", "user.send"}
             /\ reviewing'[i] = [reviewing[i] EXCEPT !.pc = "update"]
             /\ lastEvent'.reply = "pending"
     /\ \A i \in Slots :
          /\ Reviewing(i, "update") /\ reviewing'[i] = NoReview
          /\ lastEvent'.failed = "none"
          => /\ modChannel'[reviewing[i].message].footer = Footer(reviewing[i].kind)
             /\ modChannel'[reviewing[i].message].buttons = ""
             /\ lastEvent'.reply = "followUp"]_vars

\* an application was approved and one was denied, neither applicant got a
\* direct message, and the moderator has the follow-up
C25_Witness ==
  /\ Len(modChannel) = 2 /\ inbox = <<>>
  /\ modChannel[1].footer = "Approved" /\ modChannel[1].buttons = ""
  /\ modChannel[2].footer = "Rejected" /\ modChannel[2].buttons = ""
  /\ lastEvent.kind \in Decisions /\ lastEvent.reply = "followUp"


\* C26: the application flow is ordered per applicant: a decision is sent
\* to X only for a message of the moderator channel that carries X's
\* application, a message reaches the moderator channel only from the
\* 'I Agree' handler of the user who submitted the modal, and the buttons of
\* a forwarded application name that user.
C26_FlowOrdered ==
  [][/\ \A n \in 1 .. Len(inbox') :
          /\ inbox'[n].about \in 1 .. Len(modChannel')
          /\ modChannel'[inbox'[n].about].applicant = inbox'[n].to
          /\ applications'[inbox'[n].to].submitted
     /\ \A k \in 1 .. Len(modChannel') :
          /\ modChannel'[k].applicant \in Users
          /\ applications'[modChannel'[k].applicant].submitted
          /\ modChannel'[k].buttons \in {"", modChannel'[k].applicant}
     /\ Len(modChannel') > Len(modChannel)
          => /\ lastEvent'.kind = "agreeSubmission" /\ Agreeing(lastEvent'.user)
             /\ modChannel'[Len(modChannel')].applicant = lastEvent'.user
             /\ modChannel'[Len(modChannel')].buttons = lastEvent'.user
             /\ MapHas(pendingGiveaways, lastEvent'.user)
     /\ Len(inbox') > Len(inbox)
          => /\ lastEvent'.kind \in Decisions
             /\ inbox'[Len(inbox')].to = lastEvent'.user]_vars

\* the applications of U1 and U2 are with the moderators and the denial of
\* the second one went to U2
C26_Witness ==
  /\ Len(modChannel) = 2
  /\ modChannel[1].applicant = "U1" /\ modChannel[2].applicant = "U2"
  /\ inbox = <<[to |-> "U2", notice |-> "denied", about |-> 2]>>


\* the entries of pendingGiveaways stored under the key u
EntriesOf(u) == {e \in pendingGiveaways : e.key = u}

\* C27: pendingGiveaways holds at most one entry per user and each entry's
\* applicantId is the key it is stored under; a modal submission replaces
\* the entry the user had, so that the application forwarded afterwards
\* carries the values of the latest submission only.
C27_LatestSubmissionForwarded ==
  [][\A u \in Users :
       /\ Cardinality(EntriesOf(u))' <= 1
       /\ \A e \in pendingGiveaways' :
            e.key \in Users /\ e.applicantId = e.key /\ e.applicantTag = Tag(e.key)
       /\ lastEvent'.kind = "giveawayModal" /\ lastEvent'.user = u
            => /\ MapHas(pendingGiveaways', u)
               /\ Values(MapEntry(pendingGiveaways', u)) = applications'[u].latest
       /\ lastEvent'.reply = "forwarded" /\ lastEvent'.user = u
            => LET m == modChannel'[Len(modChannel')]
                   l == applications[u].latest IN
               /\ m.applicant = u
               /\ m.title = l.title /\ m.description = l.description
               /\ m.duration = l.duration
               /\ m.conditions = IF l.conditions # "" THEN l.conditions
                                 ELSE "None"]_vars

\* U1 submitted the modal again with other values before 'I Agree', and the
\* application with the conditions of the second submission was forwarded
C27_Witness ==
  /\ applications["U1"].replaced /\ applications["U1"].forwards = 1
  /\ applications["U1"].latest.conditions = "18+"
  /\ lastEvent.reply = "forwarded" /\ lastEvent.user = "U1"
  /\ modChannel[Len(modChannel)].conditions = "18+"

====
